---- MODULE Spec2Model ----
(***************************************************************************)
(* Model of scenarios/Assistants/multi-agent/multi-agent.ipynb:            *)
(* send_message (the agent router), dispatch_message (the run driver) and  *)
(* the Assistants service they talk to (threads, messages, runs).          *)
(***************************************************************************)
EXTENDS Integers, Sequences, FiniteSets, TLC

(* ------------------------------ bounds -------------------------------- *)
MaxThreads == 2     \* thread handles the service hands out
MaxRuns == 2        \* runs the service accepts
MaxCalls == 2       \* pending tool calls in one required action
MaxCycles == 2      \* requires_action cycles the service puts a run through
MaxPolls == 2       \* status re-fetches between two other calls on a run

(* --------------------------- program constants ------------------------ *)
None == 0

\* agent_arr, the names send_message tests agent_name against
agent_arr == <<"dalle_assistant", "vision_assistant">>

\* the tools= lists the three assistants are created with
AgentTools(agent) ==
    CASE agent = "dalle_assistant" -> <<[type |-> "function", name |-> "generate_image"]>>
      [] agent = "vision_assistant" -> <<[type |-> "function", name |-> "analyze_image"]>>
      [] agent = "user_proxy" -> <<[type |-> "code_interpreter", name |-> ""],
                                   [type |-> "function", name |-> "send_message"]>>

\* the names bound at module level when dispatch_message runs: globals()
Globals ==
    {"generate_image", "analyze_image", "send_message", "dispatch_message", "agents_threads"}

Range(s) == {s[k] : k \in 1..Len(s)}

available_functions_all(agent) == {"generate_image", "analyze_image", "send_message"}

\* dispatch_message, the loop building available_functions out of agent.tools
available_functions(agent) ==
    {t.name : t \in {u \in Range(AgentTools(agent)) : u.type = "function" /\ u.name \in Globals}}

(* ------------------------------- values ------------------------------- *)
Text(k, n) == [kind |-> k, n |-> n]
NoText == Text("none", 0)
user_message == Text("user_query", 0)
UnknownAgent == "video_assistant"

\* what the model behind an agent may ask for: a function name and its
\* agent_name argument ("" for the functions that take none). A specialist
\* may ask for its own tool or for send_message, which it does not declare;
\* the proxy for send_message to any name or for a tool it does not declare.
Request(name, agent_name) == [name |-> name, agent_name |-> agent_name]
Requests(agent) ==
    IF agent = "user_proxy"
    THEN {Request("send_message", a) : a \in Range(agent_arr) \cup {UnknownAgent}}
         \cup {Request("generate_image", "")}
    ELSE {Request(AgentTools(agent)[1].name, ""),
          Request("send_message", "vision_assistant")}

LastErrors == {"server_error", "rate_limit_exceeded"}
OtherStatuses == {"cancelling", "incomplete"}

NoRun == [id |-> 0, status |-> "none", tool_calls |-> <<>>, last_error |-> ""]
NoOutcome == [kind |-> "none", exc |-> "", detail |-> "", value |-> NoText]
Returned(v) == [kind |-> "returned", exc |-> "", detail |-> "", value |-> v]
Raised(e, d) == [kind |-> "raised", exc |-> e, detail |-> d, value |-> NoText]

VARIABLES
    agents_threads,   \* agent name -> thread handle, None while absent
    stack,            \* the Python call stack, innermost frame last
    outcome,          \* how the last top-level call ended
    nthreads,         \* service: thread handles handed out so far
    messages,         \* service: thread -> its messages, most recent first
    runs,             \* service: the runs, run id = index
    route_creates,    \* threads.create calls made by send_message
    addressed,        \* known agent names send_message was called with
    last              \* the step just taken and the frame that took it

vars == <<agents_threads, stack, outcome, nthreads, messages, runs,
          route_creates, addressed, last>>

Top == stack[Len(stack)]

(* ------------------------------- frames ------------------------------- *)
\* the locals of a call; dispatch_message uses all of them, send_message
\* only agent (agent_name) and message (query)
Frame(fn, message, agent, thread) ==
    [fn |-> fn, agent |-> agent, thread |-> thread, message |-> message,
     available_functions |-> {},
     run |-> NoRun,          \* the run object last returned by the service
     pc |-> "",
     i |-> 0, j |-> 0,       \* positions of the outer and the inner for
     tool_responses |-> <<>>, bound |-> FALSE,
     obs |-> <<>>,           \* statuses seen while waiting for the run
     polls |-> 0,            \* retrieve calls made while waiting for the run
     cycle |-> 0,            \* requires_action cycles begun
     submits |-> 0,          \* submit_tool_outputs calls made
     invoked |-> <<>>]       \* ids of the calls invoked in this cycle

NoFrame == Frame("", NoText, "", None)

DispatchFrame_no_append(message, agent, thread) ==
    [Frame("dispatch_message", message, agent, thread) EXCEPT !.pc = "create_run"]

\* a call of dispatch_message(message, agent, thread) that has built
\* available_functions and is about to append the message
DispatchFrame(message, agent, thread) ==
    [Frame("dispatch_message", message, agent, thread) EXCEPT
        !.available_functions = available_functions(agent), !.pc = "append"]

\* a call of send_message(query, agent_name) waiting for dispatch_message
SendFrame(query, agent_name) ==
    [Frame("send_message", query, agent_name, None) EXCEPT !.pc = "dispatch"]

\* the record of a step: its name, the call stack as it was before the
\* step, and the tool call and the tool outputs involved
Step(op, stk, call, payload) ==
    [op |-> op, stack |-> stk, call |-> call, payload |-> payload]

NoCall == [id |-> 0, type |-> "", name |-> "", agent_name |-> "", query |-> NoText]

Init ==
    /\ agents_threads = [a \in Range(agent_arr) |-> None]
    /\ stack = <<>>
    /\ outcome = NoOutcome
    /\ nthreads = 0
    /\ messages = <<>>
    /\ runs = <<>>
    /\ route_creates = 0
    /\ addressed = {}
    /\ last = Step("init", <<>>, NoCall, <<>>)

ReplaceTop_bottom(f) == [stack EXCEPT ![1] = f]

ReplaceTop(f) == [stack EXCEPT ![Len(stack)] = f]

\* the (id, status, required action, last_error) the service returns for a run
Snapshot(r, run) ==
    [id |-> r, status |-> run.status, tool_calls |-> run.tool_calls,
     last_error |-> run.last_error]

(* --------------------------- send_message ----------------------------- *)
\* if agent_name not in agent_arr: print(...), and no return
NotInAgentArr(agent_name) == agent_name \notin Range(agent_arr)

\* recipient_info = agents_threads[recipient_type] finds the key
HasEntry(agent_name) == agent_name \in DOMAIN agents_threads

ThreadAbsent_always(thread) == TRUE

\* not recipient_info["thread"]
ThreadAbsent(thread) == thread = None

Route_rebuilds(query, agent_name, base) ==
    LET create == ThreadAbsent(agents_threads[agent_name])
        thread == IF create THEN nthreads + 1 ELSE agents_threads[agent_name]
    IN  /\ create => nthreads < MaxThreads
        /\ nthreads' = IF create THEN nthreads + 1 ELSE nthreads
        /\ messages' = IF create THEN Append(messages, <<>>) ELSE messages
        /\ route_creates' = IF create THEN route_creates + 1 ELSE route_creates
        /\ agents_threads' = [a \in DOMAIN agents_threads |->
                                 IF a = agent_name THEN thread ELSE None]
        /\ addressed' = addressed \cup {agent_name}
        /\ stack' = base \o <<SendFrame(query, agent_name),
                              DispatchFrame(query, agent_name, thread)>>
        /\ outcome' = NoOutcome

\* the rest of send_message once the entry is found: the thread is created
\* and attached if absent, and dispatch_message is called
Route(query, agent_name, base) ==
    LET create == ThreadAbsent(agents_threads[agent_name])
        thread == IF create THEN nthreads + 1 ELSE agents_threads[agent_name]
    IN  /\ create => nthreads < MaxThreads
        /\ nthreads' = IF create THEN nthreads + 1 ELSE nthreads
        /\ messages' = IF create THEN Append(messages, <<>>) ELSE messages
        /\ route_creates' = IF create THEN route_creates + 1 ELSE route_creates
        /\ agents_threads' = [agents_threads EXCEPT ![agent_name] = thread]
        /\ addressed' = addressed \cup {agent_name}
        /\ stack' = base \o <<SendFrame(query, agent_name),
                              DispatchFrame(query, agent_name, thread)>>
        /\ outcome' = NoOutcome

send_message_eager(query, agent_name, base) ==
    IF ~HasEntry(agent_name)
    THEN /\ stack' = <<>>
         /\ outcome' = Raised("KeyError", agent_name)
         /\ nthreads < MaxThreads
         /\ nthreads' = nthreads + 1
         /\ messages' = Append(messages, <<>>)
         /\ UNCHANGED <<agents_threads, route_creates, addressed>>
    ELSE Route(query, agent_name, base)

\* send_message(query, agent_name) called with the frames in base below it:
\* everything up to and including the call of dispatch_message. A name that
\* is not in agent_arr is printed, and the lookup then raises KeyError
send_message(query, agent_name, base) ==
    IF ~HasEntry(agent_name)
    THEN /\ stack' = <<>>
         /\ outcome' = Raised("KeyError", agent_name)
         /\ UNCHANGED <<agents_threads, nthreads, messages, route_creates, addressed>>
    ELSE Route(query, agent_name, base)

(* --------------------------- top-level calls -------------------------- *)
\* between top-level calls no frame holds a run object, so all the program
\* can still meet of an earlier run is its thread and whether it is over
Forget(run) == [run EXCEPT !.tool_calls = <<>>, !.last_error = "", !.cycles = 0]
Forgotten == [r \in 1..Len(runs) |-> Forget(runs[r])]

\* the last code cell: thread = threads.create(); dispatch_message(...)
MainCell ==
    /\ stack = <<>>
    /\ nthreads < MaxThreads
    /\ nthreads' = nthreads + 1
    /\ messages' = Append(messages, <<>>)
    /\ stack' = <<DispatchFrame(user_message, "user_proxy", nthreads + 1)>>
    /\ outcome' = NoOutcome
    /\ last' = Step("main", <<>>, NoCall, <<>>)
    /\ runs' = Forgotten
    /\ UNCHANGED <<agents_threads, route_creates, addressed>>

\* send_message called directly, as a test of the router does
CallSendMessage ==
    /\ stack = <<>>
    /\ \E agent_name \in Range(agent_arr) \cup {UnknownAgent} :
          /\ send_message(Text("query", 0), agent_name, <<>>)
          /\ last' = Step("send_message", <<>>,
                          [NoCall EXCEPT !.name = "send_message",
                                         !.agent_name = agent_name,
                                         !.query = Text("query", 0)], <<>>)
    /\ runs' = Forgotten

(* -------------------------- dispatch_message -------------------------- *)
Driving == stack # <<>> /\ Top.fn = "dispatch_message"

Did(op) == last' = Step(op, stack, NoCall, <<>>)

\* messages.create(thread_id, role="user", content=message)
AppendMessage ==
    /\ Driving /\ Top.pc = "append"
    /\ messages' = [messages EXCEPT ![Top.thread] =
                       <<[role |-> "user", text |-> Top.message]>> \o @]
    /\ stack' = ReplaceTop([Top EXCEPT !.pc = "create_run"])
    /\ Did("messages.create")
    /\ UNCHANGED <<agents_threads, outcome, nthreads, runs, route_creates, addressed>>

\* the status a new run comes back with
CreateStatuses == {"queued", "in_progress"}

\* run = runs.create(thread_id, assistant_id)
CreateRun ==
    /\ Driving /\ Top.pc = "create_run"
    /\ Len(runs) < MaxRuns
    /\ \E s \in CreateStatuses :
         LET run == [thread |-> Top.thread, agent |-> Top.agent, status |-> s,
                     tool_calls |-> <<>>, last_error |-> "", cycles |-> 0]
         IN  /\ runs' = Append(runs, run)
             /\ stack' = ReplaceTop([Top EXCEPT !.run = Snapshot(Len(runs) + 1, run),
                                                !.obs = <<s>>, !.pc = "loop"])
    /\ Did("runs.create")
    /\ UNCHANGED <<agents_threads, outcome, nthreads, messages, route_creates, addressed>>

Branch_failed_replies(status) ==
    IF status \in {"queued", "in_progress"} THEN "poll"
    ELSE IF status = "requires_action" THEN "tools"
    ELSE "reply"

Branch_only_queued(status) ==
    IF status = "queued" THEN "poll"
    ELSE IF status = "requires_action" THEN "tools"
    ELSE IF status = "failed" THEN "raise"
    ELSE "reply"

Branch_only_in_progress(status) ==
    IF status = "in_progress" THEN "poll"
    ELSE IF status = "requires_action" THEN "tools"
    ELSE IF status = "failed" THEN "raise"
    ELSE "reply"

Branch_action_replies(status) ==
    IF status \in {"queued", "in_progress"} THEN "poll"
    ELSE IF status = "failed" THEN "raise"
    ELSE "reply"

Branch_other_polls(status) ==
    IF status = "requires_action" THEN "tools"
    ELSE IF status = "failed" THEN "raise"
    ELSE IF status = "completed" THEN "reply"
    ELSE "poll"

\* which arm of the while True body a status takes: the inner while,
\* the requires_action arm, the failed arm or the else arm
Branch(status) ==
    IF status \in {"queued", "in_progress"} THEN "poll"
    ELSE IF status = "requires_action" THEN "tools"
    ELSE IF status = "failed" THEN "raise"
    ELSE "reply"

Retrieve_busy ==
    /\ Driving /\ Top.pc = "loop" /\ Branch(Top.run.status) = "poll"
    /\ Top.polls < MaxPolls
    /\ LET run == Snapshot(Top.run.id, runs[Top.run.id])
       IN  stack' = ReplaceTop([Top EXCEPT !.run = run, !.obs = Append(@, run.status),
                                           !.polls = @ + 1, !.pc = "loop"])
    /\ Did("runs.retrieve")
    /\ UNCHANGED <<agents_threads, outcome, nthreads, messages, runs, route_creates, addressed>>

\* run = runs.retrieve(thread_id, run_id), inside the inner while
Retrieve ==
    /\ Driving /\ Top.pc = "loop" /\ Branch(Top.run.status) = "poll"
    /\ Top.polls < MaxPolls
    /\ LET run == Snapshot(Top.run.id, runs[Top.run.id])
       IN  stack' = ReplaceTop([Top EXCEPT !.run = run, !.obs = Append(@, run.status),
                                           !.polls = @ + 1, !.pc = "sleep"])
    /\ Did("runs.retrieve")
    /\ UNCHANGED <<agents_threads, outcome, nthreads, messages, runs, route_creates, addressed>>

\* the same retrieve once the drive has polled MaxPolls times in this cycle:
\* the inner while goes on as long as the status is queued or in_progress,
\* there is no counter in the code; the model stops counting (polls, obs)
RetrieveAgain ==
    /\ Driving /\ Top.pc = "loop" /\ Branch(Top.run.status) = "poll"
    /\ Top.polls >= MaxPolls
    /\ LET run == Snapshot(Top.run.id, runs[Top.run.id])
       IN  stack' = ReplaceTop([Top EXCEPT !.run = run, !.pc = "sleep"])
    /\ Did("runs.retrieve")
    /\ UNCHANGED <<agents_threads, outcome, nthreads, messages, runs, route_creates, addressed>>

\* time.sleep(1), then the inner while tests run.status again
Sleep ==
    /\ Driving /\ Top.pc = "sleep"
    /\ stack' = ReplaceTop([Top EXCEPT !.pc = "loop"])
    /\ Did("sleep")
    /\ UNCHANGED <<agents_threads, outcome, nthreads, messages, runs, route_creates, addressed>>

\* tool_calls = run.required_action.submit_tool_outputs.tool_calls and the
\* head of the outer for: no iteration at all when there is no pending call
BeginTools ==
    /\ Driving /\ Top.pc = "loop" /\ Branch(Top.run.status) = "tools"
    /\ stack' = ReplaceTop(
          IF Len(Top.run.tool_calls) = 0
          THEN [Top EXCEPT !.pc = "submit", !.cycle = @ + 1, !.invoked = <<>>,
                           !.obs = <<>>, !.polls = 0]
          ELSE [Top EXCEPT !.pc = "tools", !.i = 1, !.j = 1, !.cycle = @ + 1,
                           !.invoked = <<>>, !.obs = <<>>, !.polls = 0,
                           !.tool_responses = <<>>, !.bound = TRUE])
    /\ Did("begin_tools")
    /\ UNCHANGED <<agents_threads, outcome, nthreads, messages, runs, route_creates,
                   addressed>>

Advance_no_reset(f, responses) ==
    LET n == Len(f.run.tool_calls)
    IN  IF f.j < n
        THEN [f EXCEPT !.tool_responses = responses, !.j = @ + 1, !.pc = "tools"]
        ELSE IF f.i < n
        THEN [f EXCEPT !.tool_responses = responses, !.i = @ + 1, !.j = 1, !.pc = "tools"]
        ELSE [f EXCEPT !.tool_responses = responses, !.pc = "submit"]

\* the inner for moves past tool_calls[j] with tool_responses as given: the
\* next call, or the next iteration of the outer for (which empties
\* tool_responses again), or the submit after both loops
Advance(f, responses) ==
    LET n == Len(f.run.tool_calls)
    IN  IF f.j < n
        THEN [f EXCEPT !.tool_responses = responses, !.j = @ + 1, !.pc = "tools"]
        ELSE IF f.i < n
        THEN [f EXCEPT !.tool_responses = <<>>, !.i = @ + 1, !.j = 1, !.pc = "tools"]
        ELSE [f EXCEPT !.tool_responses = responses, !.pc = "submit"]

\* the frame after function_to_call returned value for tool_calls[j]:
\* tool_responses.append({"tool_call_id": call.id, "output": tool_response})
AfterTool(f, value) ==
    Advance(f, Append(f.tool_responses,
                      [tool_call_id |-> f.run.tool_calls[f.j].id, output |-> value]))

Raise_inner_only(exc, detail) ==
    /\ stack' = IF Len(stack) >= 3
                THEN [k \in 1..(Len(stack) - 2) |->
                        IF k = Len(stack) - 2
                        THEN AfterTool(stack[k], Text("error", 0))
                        ELSE stack[k]]
                ELSE <<>>
    /\ outcome' = Raised(exc, detail)

\* an uncaught exception unwinds every frame: nothing in the notebook catches
Raise(exc, detail) ==
    /\ stack' = <<>>
    /\ outcome' = Raised(exc, detail)

SendResult_none(value) == NoText

\* the value send_message hands back: return dispatch_message(...)
SendResult(value) == value

\* what generate_image and analyze_image return
ToolResult(name) ==
    IF name = "generate_image" THEN Text("image_generated", 0) ELSE Text("critique", 0)

Unregistered_never(f, call) == FALSE

\* call.function.name not in available_functions
Unregistered(f, call) == call.name \notin f.available_functions

function_to_call_caught(calling, call) ==
    \/ /\ stack' = ReplaceTop(AfterTool(calling, ToolResult(call.name)))
       /\ UNCHANGED outcome
    \/ /\ stack' = ReplaceTop(AfterTool(calling, Text("error", 0)))
       /\ outcome' = Raised("ToolError", call.name)

\* function_to_call(**json.loads(call.function.arguments)) for generate_image
\* or analyze_image: the function returns its string, or raises (a failed
\* request, a missing file); nothing around the call catches the exception
function_to_call(calling, call) ==
    \/ /\ stack' = ReplaceTop(AfterTool(calling, ToolResult(call.name)))
       /\ UNCHANGED outcome
    \/ Raise("ToolError", call.name)

\* one pass of the inner for body for tool_calls[j]: the lookup, and the call
\* of function_to_call(**arguments), which for send_message runs its body
InvokeTool ==
    /\ Driving /\ Top.pc = "tools"
    /\ LET call == Top.run.tool_calls[Top.j]
           calling == [Top EXCEPT !.invoked = Append(@, call.id)]
       IN  IF call.type # "function"
           THEN /\ stack' = ReplaceTop(Advance(Top, Top.tool_responses))
                /\ last' = Step("skip", stack, call, <<>>)
                /\ UNCHANGED <<agents_threads, outcome, nthreads, messages, route_creates,
                               addressed>>
           ELSE IF Unregistered(Top, call)
           THEN /\ Raise("Exception", "Function requested by the model does not exist")
                /\ last' = Step("raise", stack, call, <<>>)
                /\ UNCHANGED <<agents_threads, nthreads, messages, route_creates, addressed>>
           ELSE IF call.name = "send_message"
           THEN /\ send_message(call.query, call.agent_name,
                                ReplaceTop([calling EXCEPT !.pc = "call"]))
                /\ last' = Step("invoke", stack, call, <<>>)
           ELSE /\ function_to_call(calling, call)
                /\ last' = Step("invoke", stack, call, <<>>)
                /\ UNCHANGED <<agents_threads, nthreads, messages, route_creates, addressed>>
    /\ UNCHANGED runs

\* run = runs.submit_tool_outputs(thread_id, run_id, tool_outputs=tool_responses)
SubmitToolOutputs ==
    /\ Driving /\ Top.pc = "submit"
    /\ IF ~Top.bound
       THEN /\ Raise("UnboundLocalError", "tool_responses")
            /\ last' = Step("raise", stack, NoCall, <<>>)
            /\ UNCHANGED runs
       ELSE LET r == Top.run.id
                run == [runs[r] EXCEPT !.status = "queued", !.tool_calls = <<>>]
            IN  /\ runs' = [runs EXCEPT ![r] = run]
                /\ stack' = ReplaceTop([Top EXCEPT !.run = Snapshot(r, run),
                                                   !.obs = <<run.status>>, !.polls = 0,
                                                   !.submits = @ + 1, !.pc = "loop"])
                /\ last' = Step("runs.submit_tool_outputs", stack, NoCall,
                                Top.tool_responses)
                /\ UNCHANGED outcome
    /\ UNCHANGED <<agents_threads, nthreads, messages, route_creates, addressed>>

\* raise Exception("Run Failed. ", run.last_error)
RunFailed ==
    /\ Driving /\ Top.pc = "loop" /\ Branch(Top.run.status) = "raise"
    /\ Raise("Run Failed. ", Top.run.last_error)
    /\ Did("raise")
    /\ UNCHANGED <<agents_threads, nthreads, messages, runs, route_creates, addressed>>

LatestText_oldest(data) == data[Len(data)].text

\* messages.data[0].content[0].text.value of a messages.list result
LatestText(data) == data[1].text

\* messages = messages.list(thread_id); return the latest text: the frame
\* is popped, send_message (if it made the call) returns the same value, and
\* the caller's tool loop, if any, goes on with it
Reply ==
    /\ Driving /\ Top.pc = "loop" /\ Branch(Top.run.status) = "reply"
    /\ LET value == LatestText(messages[Top.thread])
           below == SubSeq(stack, 1, Len(stack) - 1)
           routed == below # <<>> /\ below[Len(below)].fn = "send_message"
           base == IF routed THEN SubSeq(below, 1, Len(below) - 1) ELSE below
           result == IF routed THEN SendResult(value) ELSE value
       IN  /\ IF base = <<>>
              THEN /\ stack' = <<>>
                   /\ outcome' = Returned(result)
              ELSE /\ stack' = [base EXCEPT ![Len(base)] = AfterTool(@, result)]
                   /\ UNCHANGED outcome
    /\ Did("messages.list")
    /\ UNCHANGED <<agents_threads, nthreads, messages, runs, route_creates, addressed>>

(* ------------------------------ the service --------------------------- *)
CallId(r, cycle, k) == (r * 10 + cycle) * 10 + k

\* the pending tool calls of a run's required action, one per request
ToolCalls(r, cycle, reqs) ==
    [k \in 1..Len(reqs) |->
        [id |-> CallId(r, cycle, k), type |-> "function", name |-> reqs[k].name,
         agent_name |-> reqs[k].agent_name, query |-> Text("query", 0)]]

\* the service moves a run on by itself: queued -> in_progress -> one of
\* requires_action, completed (with the assistant's reply appended to the
\* thread), failed, or another status; cancelling ends in cancelled
ServiceStep ==
    /\ \E r \in 1..Len(runs) :
         LET run == runs[r] IN
         \/ /\ run.status = "queued"
            /\ runs' = [runs EXCEPT ![r].status = "in_progress"]
            /\ UNCHANGED messages
         \/ /\ run.status = "in_progress"
            /\ run.cycles < MaxCycles
            /\ \E n \in 0..MaxCalls : \E reqs \in [1..n -> Requests(run.agent)] :
                 runs' = [runs EXCEPT ![r].status = "requires_action",
                                      ![r].cycles = @ + 1,
                                      ![r].tool_calls = ToolCalls(r, run.cycles + 1, reqs)]
            /\ UNCHANGED messages
         \/ /\ run.status = "in_progress"
            /\ runs' = [runs EXCEPT ![r].status = "completed"]
            /\ messages' = [messages EXCEPT ![run.thread] =
                               <<[role |-> "assistant", text |-> Text("reply", r)]>> \o @]
         \/ /\ run.status = "in_progress"
            /\ \E e \in LastErrors :
                 runs' = [runs EXCEPT ![r].status = "failed", ![r].last_error = e]
            /\ UNCHANGED messages
         \/ /\ run.status = "in_progress"
            /\ \E s \in OtherStatuses : runs' = [runs EXCEPT ![r].status = s]
            /\ UNCHANGED messages
         \/ /\ run.status = "cancelling"
            /\ runs' = [runs EXCEPT ![r].status = "cancelled"]
            /\ UNCHANGED messages
    /\ last' = Step("service", <<>>, NoCall, <<>>)
    /\ UNCHANGED <<agents_threads, stack, outcome, nthreads, route_creates, addressed>>

Next ==
    \/ MainCell
    \/ CallSendMessage
    \/ AppendMessage
    \/ CreateRun
    \/ Retrieve
    \/ Sleep
    \/ BeginTools
    \/ InvokeTool
    \/ SubmitToolOutputs
    \/ RunFailed
    \/ Reply
    \/ ServiceStep

Spec == Init /\ [][Next]_vars

\* the steps of the Python program once a top-level call is under way
Program ==
    \/ AppendMessage
    \/ CreateRun
    \/ Retrieve
    \/ RetrieveAgain
    \/ Sleep
    \/ BeginTools
    \/ InvokeTool
    \/ SubmitToolOutputs
    \/ RunFailed
    \/ Reply

\* the top-level calls of a fresh kernel: no run exists yet, so what happens
\* next is the first request that drives a run (calls of send_message that
\* end at once with the KeyError may come before it)
FirstMainCell == runs = <<>> /\ MainCell
FirstCallSendMessage == runs = <<>> /\ CallSendMessage

\* the first request, with its polling loop unbounded
NextLive ==
    \/ FirstMainCell
    \/ FirstCallSendMessage
    \/ AppendMessage
    \/ CreateRun
    \/ Retrieve
    \/ RetrieveAgain
    \/ Sleep
    \/ BeginTools
    \/ InvokeTool
    \/ SubmitToolOutputs
    \/ RunFailed
    \/ Reply
    \/ ServiceStep

\* the interpreter goes on executing a call that has a next step, and the
\* service goes on with a run it has queued or in progress
LiveSpec == Init /\ [][NextLive]_vars /\ WF_vars(Program) /\ WF_vars(ServiceStep)

(* ------------------------------- claims ------------------------------- *)
LastTop == IF last.stack = <<>> THEN NoFrame ELSE last.stack[Len(last.stack)]
Frames == {stack[k] : k \in 1..Len(stack)}
DispatchFrames == {f \in Frames : f.fn = "dispatch_message"}
Ids(calls) == [k \in 1..Len(calls) |-> calls[k].id]
OutputIds(outputs) == [k \in 1..Len(outputs) |-> outputs[k].tool_call_id]
\* the step just taken was a call of send_message, direct or as a tool
RouteCalled(l) == l.op \in {"send_message", "invoke"} /\ l.call.name = "send_message"

\* C1: send_message has created exactly one thread per known agent addressed
\* so far and none for the others; the drive it starts runs on the thread
\* attached to the agent, and an attached thread handle never changes.
C1_Threads ==
    /\ route_creates = Cardinality(addressed)
    /\ \A a \in DOMAIN agents_threads : (agents_threads[a] # None) <=> (a \in addressed)
    /\ \A a, b \in addressed : agents_threads[a] = agents_threads[b] => a = b
    /\ \A k \in 1..Len(stack) :
          stack[k].fn = "send_message" =>
             /\ stack[k + 1].thread = agents_threads[stack[k].agent]
             /\ stack[k + 1].thread # None
C1_Stable ==
    \A a \in DOMAIN agents_threads :
       agents_threads[a] # None => agents_threads'[a] = agents_threads[a]
C1_OneThreadPerAgent == [] C1_Threads /\ [][C1_Stable]_vars

\* C1 witness: a second route to an agent drives a run on the thread of the first
C1_Witness ==
    /\ route_creates = 1
    /\ Len(runs) = 2
    /\ \E a \in addressed :
          /\ runs[1].thread = agents_threads[a]
          /\ runs[2].thread = agents_threads[a]
          /\ \E f \in Frames : f.fn = "send_message" /\ f.agent = a

\* C2: a call of send_message with a name that is not configured returns a
\* placeholder string to its caller and does not raise.
C2_UnknownAgentReturns ==
    (RouteCalled(last) /\ NotInAgentArr(last.call.agent_name)) => outcome.kind # "raised"

\* C3: a call of send_message with a name that is not configured appends no
\* message, creates no run and no thread, and starts no dispatch_message.
C3_Step ==
    (RouteCalled(last') /\ NotInAgentArr(last'.call.agent_name)) =>
        /\ messages' = messages
        /\ nthreads' = nthreads
        /\ Len(runs') = Len(runs)
        /\ \A k \in 1..Len(stack') : stack'[k].fn # "dispatch_message" \/ k <= Len(stack)
        /\ agents_threads' = agents_threads
C3_UnknownAgentNoDrive == [][C3_Step]_vars

\* C3 witness: the proxy's run asked for send_message to an unknown agent
C3_Witness ==
    /\ last.op = "invoke" /\ RouteCalled(last) /\ NotInAgentArr(last.call.agent_name)
    /\ LastTop.agent = "user_proxy"

\* C4: a requires_action cycle has at most one submit_tool_outputs call,
\* exactly one once the drive is past the cycle, and with N >= 1 pending
\* calls its payload is one output per pending call id, in order (size N).
C4_OneBatchPerCycle ==
    /\ \A f \in DispatchFrames :
          /\ f.pc \in {"tools", "call", "submit"} => f.submits = f.cycle - 1
          /\ f.pc \notin {"tools", "call", "submit"} => f.submits = f.cycle
    /\ (last.op = "runs.submit_tool_outputs" /\ Len(LastTop.run.tool_calls) >= 1) =>
          /\ OutputIds(last.payload) = Ids(LastTop.run.tool_calls)
          /\ Top.submits = LastTop.cycle

\* C4 witness: a batch for two pending calls was submitted
C4_Witness ==
    /\ last.op = "runs.submit_tool_outputs"
    /\ Len(LastTop.run.tool_calls) = 2
    /\ Len(last.payload) = 2

\* the registry as the agent's declaration fixes it: the declared function
\* names that have a local implementation
Registry(agent) ==
    {n \in Globals : \E k \in 1..Len(AgentTools(agent)) :
         AgentTools(agent)[k].type = "function" /\ AgentTools(agent)[k].name = n}
HasUnregistered(f) ==
    \E k \in 1..Len(f.run.tool_calls) : f.run.tool_calls[k].name \notin Registry(f.agent)
InCycle(f) == f.fn = "dispatch_message" /\ f.pc \in {"tools", "call"}
ConfigError == Raised("Exception", "Function requested by the model does not exist")
FiveStatuses == {"queued", "in_progress", "requires_action", "completed", "failed"}
Waiting == {"queued", "in_progress"}
Drives == stack # <<>> /\ stack[Len(stack)].fn = "dispatch_message"

\* C5 as stated: a drive that leaves a cycle with an unregistered pending
\* call has raised the configuration error, and no batch is submitted. (The
\* KeyError of send_message for an unknown name is the subject of C2 and is
\* not held against this statement.)
C5_ConfigErrorWhateverPosition ==
    /\ \A k \in 1..Len(last.stack) :
          (InCycle(last.stack[k]) /\ HasUnregistered(last.stack[k]) /\ Len(stack) < k)
             => (outcome = ConfigError \/ outcome.exc = "KeyError")
    /\ last.op = "runs.submit_tool_outputs" => ~HasUnregistered(LastTop)

\* C5 amended: with an unregistered pending call the cycle never reaches the
\* submit and the drive ends by an exception; reaching the unregistered call
\* raises the configuration error, but a call placed before it may raise first.
C5_Inv ==
    /\ \A f \in DispatchFrames : f.pc = "submit" => ~HasUnregistered(f)
    /\ last.op = "runs.submit_tool_outputs" => ~HasUnregistered(LastTop)
    /\ \A k \in 1..Len(last.stack) :
          (InCycle(last.stack[k]) /\ HasUnregistered(last.stack[k]) /\ Len(stack) < k)
             => outcome.kind = "raised"
C5_Step ==
    (/\ Drives /\ stack[Len(stack)].pc = "tools"
     /\ stack[Len(stack)].run.tool_calls[stack[Len(stack)].j].name
           \notin Registry(stack[Len(stack)].agent)
     /\ last'.op # "service")
    => /\ outcome' = ConfigError
       /\ stack' = <<>>
       /\ runs' = runs
C5_UnregisteredNeverSubmitted == [] C5_Inv /\ [][C5_Step]_vars

\* C5 witness: the unregistered call is second in the batch, the first was
\* invoked and returned, and the configuration error was raised
C5_Witness ==
    /\ outcome = ConfigError
    /\ last.op = "raise"
    /\ LastTop.j = 2
    /\ LastTop.run.tool_calls[1].name \in Registry(LastTop.agent)

\* C6: once the drive holds a run whose status is failed it raises with the
\* service's last_error; it lists no messages and calls the service no more.
C6_Step ==
    (/\ Drives /\ stack[Len(stack)].run.status = "failed"
     /\ stack[Len(stack)].pc \in {"loop", "sleep"}
     /\ last'.op # "service")
    => /\ runs' = runs
       /\ messages' = messages
       /\ last'.op \in {"raise", "sleep"}
       /\ stack[Len(stack)].pc = "loop" =>
             /\ stack' = <<>>
             /\ outcome' = Raised("Run Failed. ", runs[stack[Len(stack)].run.id].last_error)
C6_FailedRaises == [][C6_Step]_vars

\* C6 witness: a drive raised with the detail the service reported
C6_Witness ==
    /\ outcome.kind = "raised" /\ outcome.exc = "Run Failed. "
    /\ outcome.detail = "rate_limit_exceeded"
    /\ LastTop.run.status = "failed"

\* C7: tools are invoked, outputs submitted and messages listed only when the
\* status the drive saw last is neither queued nor in_progress.
C7_NoActionWhileWaiting ==
    /\ \A f \in DispatchFrames :
          f.pc \in {"tools", "call", "submit"} => f.run.status \notin Waiting
    /\ last.op \in {"begin_tools", "invoke", "skip", "raise",
                    "runs.submit_tool_outputs", "messages.list"}
          => LastTop.run.status \notin Waiting
    /\ last.op \in {"begin_tools", "messages.list"}
          => /\ LastTop.obs # <<>>
             /\ LastTop.obs[Len(LastTop.obs)] = LastTop.run.status

\* C7 witness: messages were listed after queued and in_progress were seen
C7_Witness ==
    /\ last.op = "messages.list"
    /\ LastTop.obs = <<"queued", "in_progress", "completed">>

\* C8: when the drive leaves the wait it has made one retrieve call for each
\* queued or in_progress status it saw: two calls for in_progress,
\* in_progress, requires_action before the tools are dispatched.
WaitingSeen(f) == Cardinality({k \in 1..Len(f.obs) : f.obs[k] \in Waiting})
C8_PollsMatchStatuses ==
    /\ (last.op \in {"begin_tools", "messages.list"} \/ (last.op = "raise" /\ LastTop.pc = "loop"))
          => LastTop.polls = WaitingSeen(LastTop)
    /\ (last.op = "begin_tools"
        /\ LastTop.obs = <<"in_progress", "in_progress", "requires_action">>)
          => LastTop.polls = 2

\* C8 witness: in_progress, in_progress, requires_action before the first cycle
C8_Witness ==
    /\ last.op = "begin_tools"
    /\ LastTop.cycle = 0
    /\ LastTop.obs = <<"in_progress", "in_progress", "requires_action">>
    /\ Top.pc = "tools"

\* C9: on completed, or any status other than queued, in_progress,
\* requires_action and failed, the drive lists the messages once, returns the
\* text of the first one and calls the service no more.
C9_Inv ==
    last.op = "messages.list" =>
       LET text == messages[LastTop.thread][1].text IN
       /\ LastTop.run.status \notin {"queued", "in_progress", "requires_action", "failed"}
       /\ Len(stack) < Len(last.stack)
       /\ Len(last.stack) <= 2 => (stack = <<>> /\ outcome = Returned(text))
       /\ Len(last.stack) > 2 =>
             /\ Len(stack) = Len(last.stack) - 2
             /\ Top.tool_responses # <<>> =>
                   Top.tool_responses[Len(Top.tool_responses)].output = text
C9_Step ==
    (/\ Drives /\ stack[Len(stack)].pc = "loop"
     /\ stack[Len(stack)].run.status \notin {"queued", "in_progress", "requires_action", "failed"}
     /\ last'.op # "service")
    => /\ last'.op = "messages.list"
       /\ runs' = runs
       /\ messages' = messages
C10_Inv == last.op = "runs.retrieve" => LastTop.run.status \in Waiting
C10_Step ==
    (/\ Drives /\ stack[Len(stack)].pc = "loop"
     /\ stack[Len(stack)].run.status \notin FiveStatuses
     /\ last'.op # "service")
    => /\ last'.op = "messages.list"
       /\ Len(stack') < Len(stack)
C11_Inv ==
    (last.op = "invoke" /\ outcome.kind = "raised" /\ outcome.exc = "ToolError") =>
        /\ stack = <<>>
        /\ LastTop.pc = "tools"
        /\ runs[LastTop.run.id].status = "requires_action"
        /\ LastTop.submits = LastTop.cycle - 1
C11_Step ==
    (last'.op = "invoke" /\ outcome'.kind = "raised" /\ outcome'.exc = "ToolError") =>
        /\ runs' = runs
        /\ messages' = messages
        /\ stack' = <<>>
C11_ToolExceptionPropagates == [] C11_Inv /\ [][C11_Step]_vars

\* C11 witness: the second tool of a batch raised after the first had
\* returned its output
C11_Witness ==
    /\ last.op = "invoke" /\ outcome.kind = "raised" /\ outcome.exc = "ToolError"
    /\ LastTop.tool_responses # <<>>
    /\ LastTop.j = 2
    /\ stack = <<>>

\* C12: an exception raised inside a drive that send_message started from
\* the proxy's requires_action cycle (the inner run failed, the inner run
\* asked for an unregistered function, or a tool raised) ends the whole
\* top-level call: every frame is unwound, the outer run was given no tool
\* outputs and still waits for them, and the call has no result.
C12_Inv ==
    (last.op \in {"raise", "invoke"} /\ outcome.kind = "raised" /\ Len(last.stack) >= 3) =>
        /\ stack = <<>>
        /\ outcome.value = NoText
        /\ last.stack[1].fn = "dispatch_message" /\ last.stack[1].pc = "call"
        /\ runs[last.stack[1].run.id].status = "requires_action"
        /\ last.stack[1].submits = last.stack[1].cycle - 1
C12_Step ==
    (last'.op \in {"raise", "invoke"} /\ outcome'.kind = "raised" /\ Len(stack) >= 3) =>
        /\ runs' = runs
        /\ messages' = messages
        /\ stack' = <<>>
C12_NestedErrorAbortsRequest == [] C12_Inv /\ [][C12_Step]_vars

\* C12 witness: the run of the agent the proxy had routed to failed
C12_Witness ==
    /\ last.op = "raise" /\ outcome.kind = "raised" /\ outcome.exc = "Run Failed. "
    /\ Len(last.stack) = 3
    /\ last.stack[1].agent = "user_proxy"
    /\ LastTop.agent \in {"dalle_assistant", "vision_assistant"}
    /\ stack = <<>>

\* C13: send_message hands back what the drive it started returned, as it
\* is. A direct call returns the text the drive read; a call made as a tool
\* of the proxy's run puts that text, under the id of the send_message call,
\* into the outputs, and the batch submitted to the proxy's run is the
\* collected one: the output of a send_message call is a text of the target
\* agent's thread, the reply of the target's run when that run completed.
\* The top-level drive returns the reply of its own run once that completed.
C13_Inv ==
    /\ (last.op = "messages.list" /\ Len(last.stack) >= 2) =>
          LET result == LatestText(messages[LastTop.thread])
              reply == IF LastTop.run.status = "completed"
                       THEN Text("reply", LastTop.run.id) ELSE result
              route == last.stack[Len(last.stack) - 1]
          IN  /\ route.fn = "send_message"
              /\ LastTop.thread = agents_threads[route.agent]
              /\ result = reply
              /\ Len(last.stack) = 2 => outcome = Returned(reply)
              /\ Len(last.stack) > 2 =>
                    LET outer == last.stack[Len(last.stack) - 2]
                        call == outer.run.tool_calls[outer.j]
                    IN  /\ call.name = "send_message" /\ call.agent_name = route.agent
                        /\ outcome = NoOutcome
                        /\ Top.tool_responses # <<>> =>
                              Top.tool_responses[Len(Top.tool_responses)] =
                                 [tool_call_id |-> call.id, output |-> reply]
    /\ last.op = "runs.submit_tool_outputs" =>
          /\ last.payload = LastTop.tool_responses
          /\ \A k \in 1..Len(last.payload) :
                (/\ k <= Len(LastTop.run.tool_calls)
                 /\ LastTop.run.tool_calls[k].id = last.payload[k].tool_call_id
                 /\ LastTop.run.tool_calls[k].name = "send_message") =>
                    LET thread == agents_threads[LastTop.run.tool_calls[k].agent_name] IN
                    /\ \E m \in 1..Len(messages[thread]) :
                          messages[thread][m].text = last.payload[k].output
                    /\ k = Len(last.payload) =>
                          last.payload[k].output = LatestText(messages[thread])
    /\ (last.op = "messages.list" /\ Len(last.stack) = 1
           /\ LastTop.run.status = "completed") =>
          outcome = Returned(Text("reply", LastTop.run.id))
C13_RouteResultUnchanged == [] C13_Inv

\* C13 witness: the proxy's run asked for send_message, the target's run
\* completed with its reply, that reply was the output submitted, and the
\* proxy's run then completed with its own reply, which the drive returned
C13_Witness ==
    /\ last.op = "messages.list" /\ Len(last.stack) = 1
    /\ LastTop.agent = "user_proxy" /\ LastTop.run.id = 1
    /\ LastTop.submits = 1
    /\ Len(runs) = 2 /\ runs[2].agent # "user_proxy" /\ runs[2].status = "completed"
    /\ LastTop.tool_responses =
          <<[tool_call_id |-> CallId(1, 1, 1), output |-> Text("reply", 2)]>>
    /\ outcome = Returned(Text("reply", 1))

\* C14: dispatch_message never creates a run on a thread on which an earlier
\* run is still queued, in_progress or requires_action, whatever top-level
\* calls came before, those that ended by raising included.
C14_NoRunOnBusyThread ==
    last.op = "runs.create" =>
        \A r \in 1..(Len(runs) - 1) :
            runs[r].thread = runs[Len(runs)].thread =>
                runs[r].status \notin {"queued", "in_progress", "requires_action"}

\* how many times the function of the pending call with this id has been
\* invoked in the frame's current requires_action cycle
Invocations(f, id) == Cardinality({m \in 1..Len(f.invoked) : f.invoked[m] = id})

\* C15: in a requires_action cycle dispatch_message invokes the function of
\* each pending call once: never a second time, and once the tool loop is
\* over and the outputs are about to be submitted, N invocations for N calls.
C15_EachCallInvokedOnce ==
    \A f \in DispatchFrames :
        f.pc \in {"tools", "call", "submit"} =>
            /\ \A k \in 1..Len(f.run.tool_calls) :
                  Invocations(f, f.run.tool_calls[k].id) <= 1
            /\ f.pc = "submit" => Len(f.invoked) = Len(f.run.tool_calls)

\* C16: every output in a batch dispatch_message submits answers a call that
\* is pending in the cycle of that submission; an output of an earlier cycle
\* is not submitted again, also when the later cycle has no pending call.
C16_OutputsOfThisCycleOnly ==
    last.op = "runs.submit_tool_outputs" =>
        \A k \in 1..Len(last.payload) :
            \E c \in 1..Len(LastTop.run.tool_calls) :
                LastTop.run.tool_calls[c].id = last.payload[k].tool_call_id

\* C17: a call of dispatch_message first appends its message, as a user
\* message, to its thread, then creates its run on that thread for its agent,
\* and only then polls, invokes or submits; the frame keeps that one run to
\* its end, and no other step of a drive adds a message or a run.
NotStarted(f) ==
    /\ f.run = NoRun
    /\ f.polls = 0 /\ f.cycle = 0 /\ f.submits = 0 /\ f.invoked = <<>> /\ f.obs = <<>>
C17_Inv ==
    \A k \in 1..Len(stack) :
        LET f == stack[k] IN
        f.fn = "dispatch_message" =>
            /\ f.pc = "append" => NotStarted(f) /\ k = Len(stack)
            /\ f.pc = "create_run" =>
                  /\ NotStarted(f) /\ k = Len(stack)
                  /\ messages[f.thread] # <<>>
                  /\ messages[f.thread][1] = [role |-> "user", text |-> f.message]
            /\ f.pc \notin {"append", "create_run"} =>
                  /\ f.run.id \in 1..Len(runs)
                  /\ runs[f.run.id].thread = f.thread
                  /\ runs[f.run.id].agent = f.agent
C17_Step ==
    /\ last'.op = "messages.create" =>
          LET f == stack[Len(stack)] IN
          /\ f.pc = "append"
          /\ messages' = [messages EXCEPT ![f.thread] =
                             <<[role |-> "user", text |-> f.message]>> \o @]
          /\ runs' = runs
    /\ last'.op = "runs.create" =>
          LET f == stack[Len(stack)] IN
          /\ f.pc = "create_run"
          /\ Len(runs') = Len(runs) + 1
          /\ \A r \in 1..Len(runs) : runs'[r] = runs[r]
          /\ runs'[Len(runs')].thread = f.thread /\ runs'[Len(runs')].agent = f.agent
          /\ stack'[Len(stack')].run.id = Len(runs')
          /\ messages' = messages
    /\ last'.op \notin {"messages.create", "runs.create"} => Len(runs') = Len(runs)
    /\ last'.op \notin {"messages.create", "service", "main"} =>
          \A t \in 1..Len(messages) : messages'[t] = messages[t]
    /\ \A k \in 1..Len(stack) :
          (k <= Len(stack') /\ stack[k].fn = "dispatch_message" /\ stack[k].run.id # 0) =>
              /\ stack'[k].fn = "dispatch_message"
              /\ stack'[k].run.id = stack[k].run.id
              /\ stack'[k].pc \notin {"append", "create_run"}
C17_OneMessageThenOneRun == [] C17_Inv /\ [][C17_Step]_vars

\* C17 witness: a drive in its second requires_action cycle, whose thread
\* holds its one user message and whose run is the only run on that thread
C17_Witness ==
    /\ Drives /\ Top.cycle = 2 /\ Top.pc = "tools"
    /\ Cardinality({m \in 1..Len(messages[Top.thread]) :
                      messages[Top.thread][m].role = "user"}) = 1
    /\ Cardinality({r \in 1..Len(runs) : runs[r].thread = Top.thread}) = 1

\* C18: while a drive started by send_message from a tool loop is running,
\* the frames under it stand still and the run of the outer drive is
\* neither polled nor given outputs: it stays in requires_action, untouched,
\* until the inner drive has returned. Every service call of the program
\* concerns the run of the innermost drive only.
C18_Inv ==
    \A k \in 1..(Len(stack) - 1) :
        /\ stack[k].fn = "send_message" => stack[k + 1].fn = "dispatch_message"
        /\ stack[k].fn = "dispatch_message" =>
              /\ stack[k].pc = "call"
              /\ stack[k + 1].fn = "send_message"
              /\ stack[k].run.status = "requires_action"
              /\ runs[stack[k].run.id].status = "requires_action"
C18_Step ==
    /\ \A k \in 1..(Len(stack) - 1) :
          k < Len(stack') =>
              /\ stack'[k] = stack[k]
              /\ stack[k].fn = "dispatch_message" =>
                    runs'[stack[k].run.id] = runs[stack[k].run.id]
    /\ last'.op \in {"runs.retrieve", "runs.submit_tool_outputs", "messages.list",
                     "messages.create", "runs.create", "sleep", "begin_tools"} =>
          /\ last'.stack = stack
          /\ \A r \in 1..Len(runs) : r # stack[Len(stack)].run.id => runs'[r] = runs[r]
          /\ \A t \in 1..Len(messages) :
                t # stack[Len(stack)].thread => messages'[t] = messages[t]
C18_StrictlyNested == [] C18_Inv /\ [][C18_Step]_vars

\* C18 witness: the inner drive has just polled its run while the proxy's
\* drive waits in its tool loop with its run in requires_action
C18_Witness ==
    /\ last.op = "runs.retrieve" /\ Len(stack) = 3
    /\ stack[1].agent = "user_proxy" /\ stack[1].pc = "call"
    /\ runs[stack[1].run.id].status = "requires_action"
    /\ Top.run.id # stack[1].run.id /\ Top.polls >= 1

\* C19: dispatch_message follows its run through every requires_action
\* cycle the service puts it through, however many: whenever it sees the
\* run in requires_action it starts the tool loop, whatever the number of
\* cycles before, and when it returns the reply it has made one
\* submit_tool_outputs call per cycle the run went through.
C19_Inv ==
    last.op = "messages.list" =>
        /\ LastTop.run.status \notin {"queued", "in_progress", "requires_action"}
        /\ LastTop.cycle = runs[LastTop.run.id].cycles
        /\ LastTop.submits = LastTop.cycle
        /\ Len(last.stack) <= 2 => outcome.kind = "returned"
C19_Step ==
    (/\ Drives /\ stack[Len(stack)].pc = "loop"
     /\ stack[Len(stack)].run.status = "requires_action"
     /\ last'.op # "service")
    => /\ last'.op = "begin_tools"
       /\ stack'[Len(stack')].cycle = stack[Len(stack)].cycle + 1
C19_AnyNumberOfCycles == [] C19_Inv /\ [][C19_Step]_vars

\* C19 witness: a drive returned the reply of a run that had gone through as
\* many requires_action cycles as the service may ask for, one batch each
C19_Witness ==
    /\ last.op = "messages.list"
    /\ LastTop.cycle = MaxCycles /\ LastTop.submits = MaxCycles
    /\ LastTop.run.status = "completed"
    /\ outcome = Returned(Text("reply", LastTop.run.id))

\* C20: a drive whose program steps are taken in turn, served by a service
\* that moves every run out of queued and in_progress, with runs that enter
\* requires_action at most MaxCycles times and tools that return or raise,
\* comes to an end: the call stack empties, with a reply or an exception
\* (or the drive stands at a call that the bounds of this model cut off).
\* While the status it holds is queued or in_progress the drive does
\* nothing but retrieve and sleep, however often it has polled already: the
\* next retrieve is always possible and no step ends the drive.
OutOfBounds ==
    /\ Drives
    /\ \/ Top.pc = "create_run" /\ Len(runs) >= MaxRuns
       \/ /\ Top.pc = "tools"
          /\ Top.run.tool_calls[Top.j].name = "send_message"
          /\ ~Unregistered(Top, Top.run.tool_calls[Top.j])
          /\ HasEntry(Top.run.tool_calls[Top.j].agent_name)
          /\ ThreadAbsent(agents_threads[Top.run.tool_calls[Top.j].agent_name])
          /\ nthreads >= MaxThreads
C20_Polling ==
    (Drives /\ Top.pc = "loop" /\ Top.run.status \in Waiting) =>
        ENABLED (Retrieve \/ RetrieveAgain)
C20_Step ==
    (/\ Drives /\ stack[Len(stack)].pc \in {"loop", "sleep"}
     /\ stack[Len(stack)].run.status \in Waiting
     /\ last'.op # "service")
    => /\ last'.op \in {"runs.retrieve", "sleep"}
       /\ Len(stack') = Len(stack)
       /\ outcome' = outcome
C20_DriveTerminates ==
    /\ (stack # <<>>) ~> (stack = <<>> \/ OutOfBounds)
    /\ [] C20_Polling
    /\ [][C20_Step]_vars

\* C20 witness: a drive that had polled at least MaxPolls times in its last
\* cycle, after a requires_action cycle, returned its run's reply
C20_Witness ==
    /\ last.op = "messages.list" /\ stack = <<>>
    /\ LastTop.polls >= MaxPolls /\ LastTop.cycle >= 1
    /\ outcome.kind = "returned"

\* the frame has slept since the last create or submit_tool_outputs call on
\* its run: polls counts the retrieve calls made since then, and a drive is
\* back at the head of the inner while only through the sleep that follows
\* each of them
SleptSince(f) == f.polls >= 1

\* C21 as stated: every retrieve of a drive comes after a sleep taken since
\* the previous service call on the run (create, retrieve or submit).
C21_SleepBeforeEveryRetrieve ==
    last.op = "runs.retrieve" => SleptSince(LastTop)

\* C21: polling is never busy: every retrieve is followed by a sleep before
\* the drive does anything else, the last one included, so a sleep lies
\* between any two retrieves; the first retrieve after create or after
\* submit_tool_outputs is made at once, with no sleep before it.
C21_Inv ==
    /\ last.op = "runs.retrieve" =>
          /\ LastTop.pc = "loop" /\ LastTop.run.status \in Waiting
          /\ Top.pc = "sleep"
          /\ Top.polls = LastTop.polls + 1
    /\ last.op = "sleep" => LastTop.pc = "sleep" /\ SleptSince(LastTop) /\ Top.pc = "loop"
    /\ \A f \in DispatchFrames :
          (f.pc = "loop" /\ SleptSince(f)) => last.op \in {"sleep", "service"}
    /\ (last.op \in {"runs.create", "runs.submit_tool_outputs"} /\ Drives) =>
          /\ Top.pc = "loop" /\ ~SleptSince(Top) /\ Top.run.status \in Waiting
          /\ ENABLED Retrieve
C21_Step ==
    /\ (Drives /\ stack[Len(stack)].pc = "sleep" /\ last'.op # "service") =>
          /\ last'.op = "sleep"
          /\ runs' = runs
    /\ last'.op = "runs.retrieve" => stack[Len(stack)].pc = "loop" /\ runs' = runs
C21_SleepAfterEveryRetrieve == [] C21_Inv /\ [][C21_Step]_vars

\* C21 witness: the first retrieve after a submit_tool_outputs call, made
\* with no sleep since the submission
C21_Witness ==
    /\ last.op = "runs.retrieve"
    /\ LastTop.submits = 1 /\ ~SleptSince(LastTop)
    /\ LastTop.obs = <<"queued">>
    /\ Top.pc = "sleep"

\* C22: agents_threads changes only when a call of send_message for a known
\* agent whose thread is absent attaches a new thread to that entry: its
\* keys never change, an attached thread is never replaced or cleared (also
\* not by a step that raises), the other entries are left as they are, and a
\* call of send_message with an unknown name or the main cell's direct call
\* of dispatch_message leaves the whole dictionary unchanged.
C22_Step ==
    /\ DOMAIN agents_threads' = DOMAIN agents_threads
    /\ DOMAIN agents_threads = Range(agent_arr)
    /\ \A a \in DOMAIN agents_threads :
          agents_threads[a] # None => agents_threads'[a] = agents_threads[a]
    /\ agents_threads' # agents_threads =>
          /\ RouteCalled(last')
          /\ HasEntry(last'.call.agent_name)
          /\ agents_threads[last'.call.agent_name] = None
          /\ agents_threads'[last'.call.agent_name] = nthreads'
          /\ nthreads' = nthreads + 1
          /\ \A b \in DOMAIN agents_threads :
                b # last'.call.agent_name => agents_threads'[b] = agents_threads[b]
    /\ (RouteCalled(last') /\ ~HasEntry(last'.call.agent_name)) =>
          agents_threads' = agents_threads
    /\ last'.op = "main" => agents_threads' = agents_threads
    /\ (outcome'.kind = "raised" /\ outcome.kind # "raised") =>
          agents_threads' = agents_threads
C22_RegistryOnlyAttached == [][C22_Step]_vars

\* C22 witness: a call of send_message has just attached a thread to the
\* second agent while the first agent's entry, attached earlier, stands,
\* after a call that had ended by raising
C22_Witness ==
    /\ RouteCalled(last) /\ HasEntry(last.call.agent_name)
    /\ route_creates = 2
    /\ agents_threads[last.call.agent_name] = nthreads
    /\ \A a \in DOMAIN agents_threads : agents_threads[a] # None
    /\ \E r \in 1..Len(runs) : runs[r].status = "requires_action"

\* the function names an agent declares in its tools= list
Declared(agent) ==
    {AgentTools(agent)[k].name :
        k \in {m \in 1..Len(AgentTools(agent)) : AgentTools(agent)[m].type = "function"}}
NoOfDrives == Cardinality({k \in 1..Len(stack) : stack[k].fn = "dispatch_message"})

\* C23: dispatch_message invokes only functions that the agent it drives
\* declares: a pending call for any other name, one bound in the notebook
\* included (send_message asked for by a specialist, generate_image asked
\* for by the proxy), ends the drive with the configuration error. So only
\* the proxy's drive starts another drive, and at most two drives are on the
\* call stack, the inner one for a specialist.
C23_Inv ==
    /\ last.op = "invoke" =>
          /\ last.call.name \in Declared(LastTop.agent)
          /\ last.call.name = "send_message" => LastTop.agent = "user_proxy"
    /\ (last.op \in {"invoke", "raise", "skip"} /\ LastTop.pc = "tools"
           /\ last.call.name \notin Declared(LastTop.agent)) =>
          /\ last.op = "raise"
          /\ outcome = ConfigError
          /\ stack = <<>>
    /\ \A f \in DispatchFrames : f.available_functions = Declared(f.agent)
    /\ NoOfDrives <= 2
    /\ Len(stack) <= 3
    /\ \A k \in 1..Len(stack) :
          (stack[k].fn = "dispatch_message" /\ k < Len(stack)) =>
              /\ stack[k].agent = "user_proxy"
              /\ stack[Len(stack)].agent \in Range(agent_arr)
C23_OnlyDeclaredFunctions == [] C23_Inv

\* C23 witness: the run of a specialist the proxy had routed to asked for
\* send_message, and the drive ended with the configuration error
C23_Witness ==
    /\ last.op = "raise" /\ last.call.name = "send_message"
    /\ Len(last.stack) = 3
    /\ LastTop.agent = "dalle_assistant" /\ last.stack[1].agent = "user_proxy"
    /\ outcome = ConfigError

====
